---------------------------- MODULE Spec2Model ----------------------------
(***************************************************************************)
(* fileorganizer: a directory tree is walked into an in-memory FileTree,   *)
(* its regular files are indexed by content digest and by name, and every  *)
(* bucket with more than one member is printed as a group of duplicates.   *)
(*                                                                         *)
(* A string is a sequence of one-character strings, a path is a sequence   *)
(* of path components (each a string), the first being the scanned root.   *)
(***************************************************************************)
EXTENDS Integers, Sequences, FiniteSets, TLC

VARIABLES
    fs,          \* the filesystem object the --dir argument names
    pc,          \* position of the process: main / organize
    tree,        \* result of walk_dir (main.rs:185)
    file_index,  \* FileIndex {by_hash, by_name} (main.rs:188)
    output,      \* the groups printed so far, in print order
    ret,         \* value returned by organize (-1: has not returned)
    panic,       \* "none", or which unwrap()/unreachable!() aborted the process
    exit_code    \* the exit status of the process (-1: still running)

vars == <<fs, pc, tree, file_index, output, ret, panic, exit_code>>

-----------------------------------------------------------------------------
(* Bounds of the model *)

\* contents of regular files are 1..MaxContent
MaxContent == 2
\* symbolic links the kernel follows while resolving one path before ELOOP
MaxSymlinks == 2

Contents == 1..MaxContent

-----------------------------------------------------------------------------
(* Names and the filesystem under the root *)

n_root == <<"r">>
n_a_t  == <<"a", ".", "t">>
n_a_p  == <<"a", ".", "p">>
n_b_t  == <<"b", ".", "t">>
n_d    == <<"d">>
n_hid  == <<".", "h">>
n_hidf == <<".", "a", ".", "t">>
n_l    == <<"l">>
n_dot  == <<".">>
n_gone == <<"z">>

\* a filesystem object; children in the order read_dir reports them
FsFile(n, c, r)  == [name |-> n, kind |-> "file", content |-> c, readable |-> r,
                     target |-> <<>>, children |-> <<>>]
FsDir(n, ch, r)  == [name |-> n, kind |-> "dir", content |-> 0, readable |-> r,
                     target |-> <<>>, children |-> ch]
FsLink(n, t)     == [name |-> n, kind |-> "symlink", content |-> 0, readable |-> TRUE,
                     target |-> t, children |-> <<>>]
FsFifo(n)        == [name |-> n, kind |-> "fifo", content |-> 0, readable |-> TRUE,
                     target |-> <<>>, children |-> <<>>]
\* a listing slot for which the read_dir iterator yields Err
FsIoErr(n)       == [name |-> n, kind |-> "ioerr", content |-> 0, readable |-> FALSE,
                     target |-> <<>>, children |-> <<>>]
\* the root path names nothing
FsMissing        == [name |-> n_root, kind |-> "none", content |-> 0, readable |-> FALSE,
                     target |-> <<>>, children |-> <<>>]

\* index of the child of d called n, 0 when there is none
ChildIndex(d, n) ==
    IF \E i \in 1..Len(d.children) : d.children[i].name = n
    THEN CHOOSE i \in 1..Len(d.children) : d.children[i].name = n
    ELSE 0

\* stat(2) of entry e of directory d, nlinks symbolic links already followed on
\* the way to d: follows symbolic links ("." is d itself, any other target a
\* sibling), fails on a dangling link, on ELOOP and on a slot that cannot be read
RECURSIVE Stat(_, _, _)
Stat(d, e, nlinks) ==
    IF e.kind = "ioerr" THEN [ok |-> FALSE, obj |-> e, links |-> nlinks]
    ELSE IF e.kind # "symlink" THEN [ok |-> TRUE, obj |-> e, links |-> nlinks]
    ELSE IF nlinks + 1 > MaxSymlinks THEN [ok |-> FALSE, obj |-> e, links |-> nlinks]
    ELSE IF e.target = n_dot THEN [ok |-> TRUE, obj |-> d, links |-> nlinks + 1]
    ELSE IF ChildIndex(d, e.target) = 0 THEN [ok |-> FALSE, obj |-> e, links |-> nlinks]
    ELSE Stat(d, d.children[ChildIndex(d, e.target)], nlinks + 1)

\* the object path[i..] names below directory d, following symbolic links
RECURSIVE Lookup(_, _, _, _)
Lookup(d, path, i, nlinks) ==
    IF i > Len(path) THEN [ok |-> TRUE, obj |-> d, links |-> nlinks]
    ELSE IF d.kind # "dir" \/ ChildIndex(d, path[i]) = 0
    THEN [ok |-> FALSE, obj |-> d, links |-> nlinks]
    ELSE LET st == Stat(d, d.children[ChildIndex(d, path[i])], nlinks)
         IN  IF ~st.ok THEN st ELSE Lookup(st.obj, path, i + 1, st.links)

-----------------------------------------------------------------------------
(* std::path and the digest *)

\* str::starts_with(".")
starts_with_dot(s) == Len(s) > 0 /\ s[1] = "."

\* Path::file_name: the final component of the path
file_name(path) == path[Len(path)]

\* position of the last '.' of s, 0 when it has none
LastDot(s) ==
    IF \E i \in 1..Len(s) : s[i] = "."
    THEN CHOOSE i \in 1..Len(s) : s[i] = "." /\ \A j \in (i+1)..Len(s) : s[j] # "."
    ELSE 0

\* Path::file_stem: the file name up to its last '.', the whole name when it has
\* no '.' or only a leading one
file_stem(path) ==
    LET f == file_name(path)
        k == LastDot(f)
    IN  IF k <= 1 THEN f ELSE SubSeq(f, 1, k - 1)

HexDigits == <<"0", "1", "2", "3", "4", "5", "6", "7",
               "8", "9", "a", "b", "c", "d", "e", "f">>

\* the digest of a file's bytes as try_digest returns it, a string of hex
\* digits: one digest per content, no two alike
Sha256(c) ==
    LET v == (c * 37 + 11) % 256
    IN  <<HexDigits[(v \div 16) + 1], HexDigits[(v % 16) + 1]>>

\* try_digest(Path::new(name)): opens and reads the file the path names
try_digest(root, name) ==
    LET st == Lookup(root, name, 2, 0)
    IN  IF st.ok /\ st.obj.kind = "file" /\ st.obj.readable
        THEN [ok |-> TRUE, digest |-> Sha256(st.obj.content)]
        ELSE [ok |-> FALSE, digest |-> <<>>]

-----------------------------------------------------------------------------
(* FileTree *)

Metadata(obj) == [file_type |-> obj.kind]

FileNode(path, md)      == [type |-> "FileNode", name |-> path, metadata |-> md,
                            target |-> <<>>, entries |-> <<>>]
LinkNode(path, tgt, md) == [type |-> "LinkNode", name |-> path, metadata |-> md,
                            target |-> tgt, entries |-> <<>>]
DirNode(directory)      == [type |-> "DirNode", name |-> directory.name,
                            metadata |-> [file_type |-> "dir"],
                            target |-> <<>>, entries |-> directory.entries]
Directory(path, ents)   == [name |-> path, entries |-> ents]
\* struct File
File(node)              == [name |-> node.name, metadata |-> node.metadata]

\* fn should_skip: TRUE for the entries the walk keeps
should_skip(name) == ~starts_with_dot(name)

WalkOk(directory) == [status |-> "Ok", dir |-> directory, why |-> "none"]
WalkErr(path)     == [status |-> "Err", dir |-> Directory(path, <<>>), why |-> "read_dir"]
WalkPanic(path, w) == [status |-> "Panic", dir |-> Directory(path, <<>>), why |-> w]

RECURSIVE walk_dir(_, _, _)
RECURSIVE walk_entries(_, _, _, _, _, _)

\* the for loop of walk_dir from entry i on, acc the nodes pushed so far
walk_entries(d, path, nlinks, entries, i, acc) ==
    IF i > Len(entries) THEN WalkOk(Directory(path, acc))
    ELSE
      LET e  == entries[i]
          p  == Append(path, e.name)
          st == Stat(d, e, nlinks)
      IN  IF ~should_skip(e.name)
          THEN walk_entries(d, path, nlinks, entries, i + 1, acc)
          ELSE IF ~st.ok THEN WalkPanic(p, "metadata")
          ELSE IF st.obj.kind = "dir"
          THEN LET sub == walk_dir(st.obj, p, st.links)
               IN  IF sub.status # "Ok" THEN sub
                   ELSE walk_entries(d, path, nlinks, entries, i + 1,
                                     Append(acc, DirNode(sub.dir)))
          ELSE IF e.kind = "symlink"
          THEN walk_entries(d, path, nlinks, entries, i + 1,
                            Append(acc, LinkNode(p, e.target, Metadata(st.obj))))
          ELSE IF st.obj.kind = "file"
          THEN walk_entries(d, path, nlinks, entries, i + 1,
                            Append(acc, FileNode(p, Metadata(st.obj))))
          ELSE WalkPanic(p, "unreachable")

\* fn walk_dir(dir, filter), filter = should_skip as organize passes it
walk_dir(d, path, nlinks) ==
    IF d.kind # "dir" \/ ~d.readable THEN WalkErr(path)
    ELSE walk_entries(d, path, nlinks,
                      SelectSeq(d.children, LAMBDA e : e.kind # "ioerr"), 1, <<>>)


-----------------------------------------------------------------------------
(* FileIndex and the two passes over the tree *)

\* FileIndex::new
FileIndexNew == [by_hash |-> <<>>, by_name |-> <<>>]

\* HashMap::entry(key).or_insert(Vec::new()).push(file)
Push(map, key, file) ==
    IF key \in DOMAIN map
    THEN [map EXCEPT ![key] = Append(@, file)]
    ELSE [k \in DOMAIN map \cup {key} |-> IF k = key THEN <<file>> ELSE map[k]]

\* store_hash with HashMap::insert(hash, vec![file]) in place of entry().push()
store_hash_insert(index, hash, file) ==
    [index EXCEPT !.by_hash =
        [k \in DOMAIN @ \cup {hash} |-> IF k = hash THEN <<file>> ELSE @[k]]]

\* FileIndex::store_hash (main.rs)
store_hash(index, hash, file) ==
    [index EXCEPT !.by_hash = Push(@, hash, file)]

\* FileIndex::store_name (main.rs): the key is the final path component
store_name(index, name, file) ==
    [index EXCEPT !.by_name = Push(@, file_name(name), file)]

\* FileIndex::store_name (file_tree/mod.rs): the key is the stem of the final
\* path component
file_tree_store_name(index, name, file) ==
    [index EXCEPT !.by_name = Push(@, file_stem(name), file)]

\* visit_files with func also called on the LinkNode leaves
RECURSIVE visit_files_links(_)
RECURSIVE visit_entries_links(_, _)
visit_entries_links(entries, i) ==
    IF i > Len(entries) THEN <<>>
    ELSE LET entry == entries[i]
         IN  (IF entry.type = "DirNode"
              THEN visit_files_links(Directory(entry.name, entry.entries))
              ELSE <<File(entry)>>)
             \o visit_entries_links(entries, i + 1)

visit_files_links(node) == visit_entries_links(node.entries, 1)

\* fn visit_files: the files func is called with, in call order
RECURSIVE visit_files(_)
RECURSIVE visit_entries(_, _)
visit_entries(entries, i) ==
    IF i > Len(entries) THEN <<>>
    ELSE LET entry == entries[i]
         IN  (IF entry.type = "DirNode" THEN visit_files(Directory(entry.name, entry.entries))
              ELSE IF entry.type = "LinkNode" THEN <<>>
              ELSE <<File(entry)>>)
             \o visit_entries(entries, i + 1)

visit_files(node) == visit_entries(node.entries, 1)

\* the visitor of create_hash_index applied to files[i..]: try_digest(..).unwrap()
\* aborts the process at the first file that cannot be read
RECURSIVE hash_visitor(_, _, _, _)
hash_visitor(root, files, i, index) ==
    IF i > Len(files) THEN [index |-> index, panicked |-> FALSE]
    ELSE LET digest == try_digest(root, files[i].name)
         IN  IF ~digest.ok THEN [index |-> index, panicked |-> TRUE]
             ELSE hash_visitor(root, files, i + 1,
                               store_hash(index, digest.digest, files[i]))

\* fn create_hash_index
create_hash_index(root, node, index) ==
    hash_visitor(root, visit_files(node), 1, index)

\* the visitor of create_name_index applied to files[i..]
RECURSIVE name_visitor(_, _, _)
name_visitor(files, i, index) ==
    IF i > Len(files) THEN index
    ELSE name_visitor(files, i + 1, store_name(index, files[i].name, files[i]))

\* fn create_name_index
create_name_index(node, index) == name_visitor(visit_files(node), 1, index)

-----------------------------------------------------------------------------
(* Reporting *)

\* the orders in which a HashMap with key set S may be iterated
Orders(S) ==
    {o \in [1..Cardinality(S) -> S] : \A i, j \in DOMAIN o : o[i] = o[j] => i = j}

\* one printed group: the header names collisions.first(), one line per item
Group(collisions) ==
    [header |-> collisions[1].name,
     items  |-> [i \in 1..Len(collisions) |-> collisions[i].name]]

\* the report loop with collisions.len() > 0 as its test
RECURSIVE report_nonempty(_, _, _)
report_nonempty(map, o, i) ==
    IF i > Len(o) THEN <<>>
    ELSE (IF Len(map[o[i]]) > 0 THEN <<Group(map[o[i]])>> ELSE <<>>)
         \o report_nonempty(map, o, i + 1)

\* the for loop over get_hashes() / get_names(), buckets met in order o[i..]
RECURSIVE report(_, _, _)
report(map, o, i) ==
    IF i > Len(o) THEN <<>>
    ELSE (IF Len(map[o[i]]) > 1 THEN <<Group(map[o[i]])>> ELSE <<>>)
         \o report(map, o, i + 1)

-----------------------------------------------------------------------------
(* The filesystems the program is run on *)

Opt(S) == {<<>>} \cup {<<x>> : x \in S}

SubChildren ==
    Opt({FsFile(n_a_t, c, TRUE) : c \in Contents} \cup {FsFile(n_b_t, 1, TRUE)})

RootChildren ==
    { s1 \o s2 \o s3 \o s4 \o s5 :
        s1 \in Opt({FsFile(n_a_t, c, TRUE) : c \in Contents}
                   \cup {FsFile(n_a_t, 1, FALSE), FsFifo(n_a_t), FsIoErr(n_a_t)}),
        s2 \in Opt({FsFile(n_a_p, c, TRUE) : c \in Contents}),
        s3 \in Opt({FsDir(n, ch, TRUE) : n \in {n_d, n_hid}, ch \in SubChildren}
                   \cup {FsDir(n_d, <<>>, FALSE)}),
        s4 \in Opt({FsLink(n_l, t) : t \in {n_dot, n_a_t, n_d, n_hid, n_gone}}),
        s5 \in Opt({FsFile(n_hidf, 1, TRUE)}) }

FileSystems == {FsMissing} \cup {FsDir(n_root, ch, r) : ch \in RootChildren, r \in {TRUE}}
               \cup {FsDir(n_root, <<>>, FALSE)}

-----------------------------------------------------------------------------
(* The process *)

NoTree == [status |-> "None", dir |-> Directory(<<>>, <<>>), why |-> "none"]

Init ==
    /\ fs \in FileSystems
    /\ pc = "main"
    /\ tree = NoTree
    /\ file_index = FileIndexNew
    /\ output = <<>>
    /\ ret = -1
    /\ panic = "none"
    /\ exit_code = -1

\* a panic unwinds main: the process ends with status 101
Abort(why) ==
    /\ pc' = "exited"
    /\ panic' = why
    /\ exit_code' = 101

\* main.rs:185  let tree = walk_dir(dir, should_skip)
Walk ==
    /\ pc = "main"
    /\ tree' = walk_dir(fs, <<n_root>>, 0)
    /\ IF tree'.status = "Panic"
       THEN Abort(tree'.why)
       ELSE pc' = "walked" /\ UNCHANGED <<panic, exit_code>>
    /\ UNCHANGED <<fs, file_index, output, ret>>

\* main.rs:214-217  Err(tree) => return 1
WalkFailed ==
    /\ pc = "walked"
    /\ tree.status = "Err"
    /\ ret' = 1
    /\ pc' = "returned"
    /\ UNCHANGED <<fs, tree, file_index, output, panic, exit_code>>

\* main.rs:188-189  FileIndex::new(); create_hash_index(&tree, &mut file_index)
CreateHashIndex ==
    /\ pc = "walked"
    /\ tree.status = "Ok"
    /\ LET r == create_hash_index(fs, tree.dir, FileIndexNew)
       IN  /\ file_index' = r.index
           /\ IF r.panicked
              THEN Abort("try_digest")
              ELSE pc' = "hashed" /\ UNCHANGED <<panic, exit_code>>
    /\ UNCHANGED <<fs, tree, output, ret>>

\* main.rs:190-198  the loop over file_index.get_hashes()
ReportHashes ==
    /\ pc = "hashed"
    /\ \E o \in Orders(DOMAIN file_index.by_hash) :
          output' = output \o report(file_index.by_hash, o, 1)
    /\ pc' = "hash_reported"
    /\ UNCHANGED <<fs, tree, file_index, ret, panic, exit_code>>

\* main.rs:200  create_name_index(&tree, &mut file_index)
CreateNameIndex ==
    /\ pc = "hash_reported"
    /\ file_index' = create_name_index(tree.dir, file_index)
    /\ pc' = "named"
    /\ UNCHANGED <<fs, tree, output, ret, panic, exit_code>>

\* main.rs:202-212  the loop over file_index.get_names(); return 0
ReportNames ==
    /\ pc = "named"
    /\ \E o \in Orders(DOMAIN file_index.by_name) :
          output' = output \o report(file_index.by_name, o, 1)
    /\ ret' = 0
    /\ pc' = "returned"
    /\ UNCHANGED <<fs, tree, file_index, panic, exit_code>>

\* main.rs:226-227  organize(..); its value is dropped and main returns ()
MainReturn ==
    /\ pc = "returned"
    /\ exit_code' = 0
    /\ pc' = "exited"
    /\ UNCHANGED <<fs, tree, file_index, output, ret, panic>>

Next ==
    \/ Walk
    \/ WalkFailed
    \/ CreateHashIndex
    \/ ReportHashes
    \/ CreateNameIndex
    \/ ReportNames
    \/ MainReturn

Spec == Init /\ [][Next]_vars

-----------------------------------------------------------------------------
(* Vocabulary of the properties *)

\* every node below a list of entries, at any depth
RECURSIVE AllNodes(_)
AllNodes(entries) ==
    UNION { {entries[i]} \cup AllNodes(entries[i].entries) : i \in 1..Len(entries) }

TreeNodes  == AllNodes(tree.dir.entries)
FileLeaves == {n \in TreeNodes : n.type = "FileNode"}

\* the directory entry a path names, its last component not followed (lstat)
EntryAt(path) ==
    LET par == Lookup(fs, SubSeq(path, 1, Len(path) - 1), 2, 0)
    IN  par.obj.children[ChildIndex(par.obj, path[Len(path)])]

\* the object a path names, symbolic links followed
ObjectAt(path) == Lookup(fs, path, 2, 0).obj

\* the file is a member of bucket k of map
InBucket(map, k, path) == \E i \in 1..Len(map[k]) : map[k][i].name = path
\* the places of a file in a map
Places(map, path) ==
    {<<k, i>> \in UNION {{k} \X (1..Len(map[k])) : k \in DOMAIN map} : map[k][i].name = path}
SameBucket(map, p, q) == \E k \in DOMAIN map : InBucket(map, k, p) /\ InBucket(map, k, q)

\* a path has a component below the root that begins with '.'
Hidden(path) == \E j \in 2..Len(path) : starts_with_dot(path[j])

\* what entry e of directory d stands for once symbolic links to siblings are
\* followed
RECURSIVE RealEntry(_, _)
RealEntry(d, e) ==
    IF e.kind = "symlink" /\ e.target # n_dot /\ ChildIndex(d, e.target) # 0
    THEN RealEntry(d, d.children[ChildIndex(d, e.target)])
    ELSE e

\* the path free of symbolic links of the object path[i..] names below
\* directory d, whose own such path is dreal
RECURSIVE RealPath(_, _, _, _)
RealPath(d, dreal, path, i) ==
    IF i > Len(path) THEN dreal
    ELSE LET e == d.children[ChildIndex(d, path[i])]
         IN  IF e.kind = "symlink" /\ e.target = n_dot
             THEN RealPath(d, dreal, path, i + 1)
             ELSE RealPath(RealEntry(d, e), Append(dreal, RealEntry(d, e).name),
                           path, i + 1)

\* where in the filesystem the object a path names is located
Located(path) == RealPath(fs, <<n_root>>, path, 2)

Members(map) == {map[k][i] : <<k, i>> \in UNION {{k} \X (1..Len(map[k])) : k \in DOMAIN map}}

WalkDone      == pc # "main"
HashIndexDone == tree.status = "Ok" /\ pc \notin {"main", "walked"} /\ panic = "none"
BothIndexDone == tree.status = "Ok" /\ pc \in {"named", "returned", "exited"} /\ panic = "none"

-----------------------------------------------------------------------------
(* C1 *)

\* C1: once create_hash_index has run over the tree, two regular files of the
\* tree are members of one by-content bucket exactly when their contents are
\* equal, whatever their names and directories.
C1_ContentBuckets ==
    HashIndexDone =>
        \A f, g \in FileLeaves :
            (ObjectAt(f.name).content = ObjectAt(g.name).content)
                <=> SameBucket(file_index.by_hash, f.name, g.name)

\* two files of equal content with different names in different directories,
\* and a third of another content, have been indexed
C1_Witness ==
    /\ HashIndexDone
    /\ \E f, g, h \in FileLeaves :
          /\ Len(f.name) # Len(g.name)
          /\ file_name(f.name) # file_name(g.name)
          /\ ObjectAt(f.name).content = ObjectAt(g.name).content
          /\ ObjectAt(h.name).content # ObjectAt(f.name).content

-----------------------------------------------------------------------------
(* C2 *)

\* C2: once the by-name index is built, two regular files of the tree are in
\* the same by-name bucket if and only if the stems of their final path
\* components are equal.
C2_StemBuckets ==
    BothIndexDone =>
        \A f, g \in FileLeaves :
            SameBucket(file_index.by_name, f.name, g.name)
                <=> (file_stem(f.name) = file_stem(g.name))

\* the by-name map file_tree's store_name builds from files[i..]
RECURSIVE file_tree_names(_, _, _)
file_tree_names(files, i, index) ==
    IF i > Len(files) THEN index.by_name
    ELSE file_tree_names(files, i + 1,
                         file_tree_store_name(index, files[i].name, files[i]))

\* store_name of file_tree/mod.rs, applied to the same files, does group them
\* by stem
C2_FileTreeStemBuckets ==
    BothIndexDone =>
        LET by_stem == file_tree_names(visit_files(tree.dir), 1, FileIndexNew)
        IN  \A f, g \in FileLeaves :
                SameBucket(by_stem, f.name, g.name)
                    <=> (file_stem(f.name) = file_stem(g.name))

-----------------------------------------------------------------------------
(* C3 *)

IsTheLeaves(map) ==
    /\ \A f \in FileLeaves : Cardinality(Places(map, f.name)) = 1
    /\ \A m \in Members(map) : \E f \in FileLeaves : m = File(f)
    /\ \A n \in TreeNodes :
          n.type # "FileNode" => ~ \E m \in Members(map) : m.name = n.name

\* C3: when both passes are complete, each FileNode leaf of the tree is at
\* exactly one place of the by-content index and at exactly one place of the
\* by-name index, every member of either index is such a leaf, and no
\* directory or LinkNode is a member.
C3_IndexesAreTheLeaves ==
    BothIndexDone =>
        /\ IsTheLeaves(file_index.by_hash)
        /\ IsTheLeaves(file_index.by_name)

\* a tree with a directory, a link and files at two depths has been indexed
C3_Witness ==
    /\ BothIndexDone
    /\ \E n \in TreeNodes : n.type = "DirNode" /\ n.entries # <<>>
    /\ \E n \in TreeNodes : n.type = "LinkNode"
    /\ \E f, g \in FileLeaves : Len(f.name) # Len(g.name)

-----------------------------------------------------------------------------
(* C4 *)

\* C4: no node of the tree and no member of either index has a hidden name
\* below the root in its path, and no file of the tree or of an index is
\* located beneath a hidden directory.
C4_NoHidden ==
    /\ \A n \in TreeNodes :
          ~Hidden(n.name) /\ (n.type = "FileNode" => ~Hidden(Located(n.name)))
    /\ \A m \in Members(file_index.by_hash) \cup Members(file_index.by_name) :
          ~Hidden(m.name) /\ ~Hidden(Located(m.name))

\* the part of C4 the filter alone decides: no path of a node or of a member
\* has a hidden component below the root
C4_NoHiddenPath ==
    /\ \A n \in TreeNodes : ~Hidden(n.name)
    /\ \A m \in Members(file_index.by_hash) \cup Members(file_index.by_name) :
          ~Hidden(m.name)

-----------------------------------------------------------------------------
(* C5 *)

\* C5: after the walk every node that stands for a symbolic link is a LinkNode,
\* and no path the walk reached (a node, or the place where it stopped) passes
\* through a symbolic link.
C5_LinksAreLeaves ==
    WalkDone /\ fs.kind = "dir" /\ fs.readable =>
        /\ \A n \in TreeNodes :
              EntryAt(n.name).kind = "symlink" => n.type = "LinkNode"
        /\ \A path \in {n.name : n \in TreeNodes} \cup {tree.dir.name} :
              \A j \in 2..(Len(path) - 1) :
                  EntryAt(SubSeq(path, 1, j)).kind # "symlink"

-----------------------------------------------------------------------------
(* C6 *)

\* C6: the process exits with 0 when the scan completed and with 1 when the
\* root could not be walked, and then no index was built.
C6_ExitCode ==
    pc = "exited" =>
        /\ (ret = 0 => exit_code = 0)
        /\ (fs.kind # "dir" \/ ~fs.readable =>
                exit_code = 1 /\ file_index = FileIndexNew)

-----------------------------------------------------------------------------
(* C7 *)

\* C7: when the process has ended after a successful walk, the run has
\* completed, the by-content index holds exactly the files that can be read,
\* and the by-name index holds every file.
C7_DigestFailureSkipped ==
    pc = "exited" /\ tree.status = "Ok" =>
        /\ ret = 0
        /\ \A f \in FileLeaves :
              /\ try_digest(fs, f.name).ok
                    <=> (Places(file_index.by_hash, f.name) # {})
              /\ Places(file_index.by_name, f.name) # {}

-----------------------------------------------------------------------------
(* C8 *)

\* the entries of the root that pass the filter and can be listed and stat'ed
Statable ==
    {i \in 1..Len(fs.children) :
        /\ should_skip(fs.children[i].name)
        /\ Stat(fs, fs.children[i], 0).ok}

\* C8: an entry of the listing that cannot be read or stat'ed does not abort
\* the walk, and the tree the walk returns has a node for every other entry
\* that passes the filter.
C8_UnreadableEntryDropped ==
    WalkDone /\ fs.kind = "dir" /\ fs.readable =>
        /\ tree.why # "metadata"
        /\ tree.status = "Ok" =>
              \A i \in Statable :
                  \E n \in TreeNodes : n.name = <<n_root, fs.children[i].name>>

-----------------------------------------------------------------------------
(* C9 *)

\* the printed groups gs are those of map: one per bucket of two or more
\* members, listing all its members behind its first, none for any other
GroupsOf(gs, map) ==
    /\ \A k \in DOMAIN map :
          Cardinality({i \in 1..Len(gs) :
                          gs[i].items = [j \in 1..Len(map[k]) |-> map[k][j].name]})
             = IF Len(map[k]) >= 2 THEN 1 ELSE 0
    /\ \A i \in 1..Len(gs) :
          \E k \in DOMAIN map :
              /\ Len(map[k]) >= 2
              /\ gs[i].header = map[k][1].name
              /\ gs[i].items = [j \in 1..Len(map[k]) |-> map[k][j].name]

NHashGroups ==
    Cardinality({k \in DOMAIN file_index.by_hash : Len(file_index.by_hash[k]) >= 2})

\* C9: the groups printed for an index are exactly its buckets of two or more
\* members, each printed once with all its members and its first member as
\* representative; a bucket of one member is never printed.
C9_GroupsAreCollisions ==
    /\ pc \in {"hash_reported", "named"} => GroupsOf(output, file_index.by_hash)
    /\ ret = 0 =>
          /\ NHashGroups <= Len(output)
          /\ GroupsOf(SubSeq(output, 1, NHashGroups), file_index.by_hash)
          /\ GroupsOf(SubSeq(output, NHashGroups + 1, Len(output)), file_index.by_name)

\* both reports are printed from indexes with a bucket of three members and a
\* bucket of one
C9_Witness ==
    /\ ret = 0
    /\ \E k \in DOMAIN file_index.by_hash : Len(file_index.by_hash[k]) = 3
    /\ \E k \in DOMAIN file_index.by_hash : Len(file_index.by_hash[k]) = 1
    /\ \E k \in DOMAIN file_index.by_name : Len(file_index.by_name[k]) = 3
    /\ \E k \in DOMAIN file_index.by_name : Len(file_index.by_name[k]) = 1
    /\ Len(output) = 2

-----------------------------------------------------------------------------
(* C10 *)

\* C10: the walk never reaches the unreachable!() arm of the classification.
C10_Unreachable == tree.why # "unreachable"

=============================================================================
